---- MODULE Spec2Model ----
(***************************************************************************)
(* A model of hipthrusts' Express binding (hipExpressHandlerFactory) and   *)
(* of the stage factories of htZodFactory.                                 *)
(*                                                                         *)
(* Two specifications are given.  HelperSpec applies one stage factory to  *)
(* inputs drawn from bounded sets.  Spec runs NumRequests requests through *)
(* one handler returned by hipExpressHandlerFactory, their stages          *)
(* interleaving at the await points.                                       *)
(***************************************************************************)
EXTENDS Integers, Sequences, FiniteSets, TLC

VARIABLES
    hcall,      \* the stage factory under application and its arguments
    hpc,        \* "ready" | "awaiting" | "settled"
    hresult,    \* how the application settled: a return or a throw
    hqueries,   \* the calls made to Model.findById / Model.findOne
    hanswer,    \* what the awaited external call (exec(), save()) settled with
    hsaves,     \* the number of context[key].save() calls made
    req,        \* per request: the Express req (params, query, body)
    pc,         \* per request: "idle" | "running" | "resolved" | "rejected" | "done"
    stage,      \* per request: index in StageOrder of the next stage to run
    ctx,        \* per request: the context merged from the stage outputs
    ran,        \* per request: the stages run so far, each with its result
    settled,    \* per request: what the executeHipthrustable promise settled with
    written,    \* per request: whether res.status().json() returned or threw
    calls       \* per res/next triple: the terminal calls made on it

hvars == <<hcall, hpc, hresult, hqueries, hanswer, hsaves>>
rvars == <<req, pc, stage, ctx, ran, settled, written, calls>>
vars == <<hcall, hpc, hresult, hqueries, hanswer, hsaves,
          req, pc, stage, ctx, ran, settled, written, calls>>

\* ------------------------------------------------------------------ bounds
\* The number of requests in flight on one handler.
NumRequests == 2

\* ------------------------------------------------------------- JS values
Undefined == [kind |-> "undefined"]
Null == [kind |-> "null"]
Str(s) == [kind |-> "string", s |-> s]
Num(n) == [kind |-> "number", n |-> n]
EmptyArray == [kind |-> "array", len |-> 0]
Obj(f) == [kind |-> "object", fields |-> f]

\* JS truthiness, as `!x` and `if (x)` compute it.
Truthy(v) ==
    CASE v.kind = "undefined" -> FALSE
      [] v.kind = "null" -> FALSE
      [] v.kind = "string" -> v.s # ""
      [] v.kind = "number" -> v.n # 0
      [] OTHER -> TRUE

\* x.toString() for the values a lookup is given.
toString(v) ==
    CASE v.kind = "string" -> v.s
      [] v.kind = "number" -> IF v.n = 7 THEN "7" ELSE "0"
      [] v.kind = "array" -> ""
      [] OTHER -> "[object Object]"

Return(v) == [kind |-> "return", value |-> v]
Throw(e) == [kind |-> "throw", exception |-> e]
None == [kind |-> "none"]

\* ------------------------------------------------------------ exceptions
\* @hapi/boom errors: the factory sets the HTTP status code.
Boom(code, msg) == [type |-> "Boom", statusCode |-> code, message |-> msg]
BadRequest(msg) == Boom(400, msg)
NotFound(msg) == Boom(404, msg)
BadData(msg) == Boom(422, msg)
Internal(msg) == Boom(500, msg)
Forbidden(msg) == Boom(403, msg)
HipRedirect(code, url) ==
    [type |-> "HipRedirectException", redirectCode |-> code, redirectUrl |-> url]
PlainError(msg) == [type |-> "Error", message |-> msg]

\* ------------------------------------------------------------------- zod
Keys == {"_id", "id", "name"}
FieldValues == {"s1", "n1"}
TypeOf(v) == IF v = "s1" THEN "string" ELSE "number"

\* Plain objects with keys among Keys.
Pojos == UNION {[S -> FieldValues] : S \in SUBSET Keys}

FieldSpecs == [type : {"string", "number"}, optional : BOOLEAN]
\* z.object(shape) with its unknown-keys policy.
Schemas ==
    [shape : UNION {[S -> FieldSpecs] : S \in SUBSET Keys},
     unknownKeys : {"strip", "passthrough", "strict"}]

\* schema.partial(): every field becomes optional.
Partial(schema) ==
    [schema EXCEPT !.shape =
        [k \in DOMAIN schema.shape |-> [schema.shape[k] EXCEPT !.optional = TRUE]]]

\* schema.safeParse(value) for an object schema.
SafeParse(schema, value) ==
    IF value.kind # "object"
    THEN [success |-> FALSE, error |-> "ZodError"]
    ELSE LET f == value.fields
             shape == schema.shape
             fieldsOk == \A k \in DOMAIN shape :
                            IF k \in DOMAIN f
                            THEN TypeOf(f[k]) = shape[k].type
                            ELSE shape[k].optional
             unknown == DOMAIN f \ DOMAIN shape
             keep == IF schema.unknownKeys = "passthrough"
                     THEN DOMAIN f
                     ELSE DOMAIN f \cap DOMAIN shape
         IN IF fieldsOk /\ (schema.unknownKeys = "strict" => unknown = {})
            THEN [success |-> TRUE, data |-> Obj([k \in keep |-> f[k]])]
            ELSE [success |-> FALSE, error |-> "ZodError"]

\* ------------------------------------------------------- stage factories
\* const { _id, ...rest } = obj; return rest;
stripIdTransformKeepsId(obj) == obj
stripIdTransform(obj) ==
    Obj([k \in DOMAIN obj.fields \ {"_id"} |-> obj.fields[k]])

SanitizeParamsWithZodUnchecked(schema, unsafeParams) ==
    LET parseResult == SafeParse(schema, unsafeParams)
    IN IF parseResult.success
       THEN Return(stripIdTransform(parseResult.data))
       ELSE Return(unsafeParams)
SanitizeParamsWithZod(schema, unsafeParams) ==
    LET parseResult == SafeParse(schema, unsafeParams)
    IN IF ~parseResult.success
       THEN Throw(BadRequest("Params not valid"))
       ELSE Return(stripIdTransform(parseResult.data))

SanitizeQueryParamsWithZod(schema, unsafeQueryParams) ==
    LET parseResult == SafeParse(schema, unsafeQueryParams)
    IN IF ~parseResult.success
       THEN Throw(BadRequest("Query params not valid"))
       ELSE Return(stripIdTransform(parseResult.data))

\* options?.partial ? schema.partial() : schema
EffectiveSchema(schema, partial) == IF partial THEN Partial(schema) ELSE schema

SanitizeBodyWithZod(schema, partial, unsafeBody) ==
    LET parseResult == SafeParse(EffectiveSchema(schema, partial), unsafeBody)
    IN IF ~parseResult.success
       THEN Throw(BadRequest("Body not valid"))
       ELSE Return(stripIdTransform(parseResult.data))

SanitizeResponseWithZodAsBadRequest(schema, unsafeResponse) ==
    LET parseResult == SafeParse(schema, unsafeResponse)
    IN IF ~parseResult.success
       THEN Throw(BadRequest("Response validation failed"))
       ELSE Return(parseResult.data)
SanitizeResponseWithZod(schema, unsafeResponse) ==
    LET parseResult == SafeParse(schema, unsafeResponse)
    IN IF ~parseResult.success
       THEN Throw(Internal("Response validation failed"))
       ELSE Return(parseResult.data)

\* context[pojoKey] of a context that may lack the key.
Lookup(context, key) ==
    IF key \in DOMAIN context THEN context[key] ELSE Undefined

PojoToValidated(pojoKey, schema, newValidatedKey, context) ==
    LET parseResult == SafeParse(schema, Lookup(context, pojoKey))
    IN IF ~parseResult.success
       THEN Throw(BadRequest("Data validation failed"))
       ELSE Return([k \in {newValidatedKey} |-> parseResult.data])

\* --------------------------------------------------------------- lookups
\* Documents of the collection behind Model.
Documents ==
    {[kind |-> "document", _id |-> "a", slug |-> "x"],
     [kind |-> "document", _id |-> "b", slug |-> "y"]}

\* Model.findById(id).exec() on a collection holding docs.
FindById(docs, id) ==
    IF \E d \in docs : d._id = toString(id)
    THEN CHOOSE d \in docs : d._id = toString(id)
    ELSE Null

\* Model.findOne({ [fieldName]: { $eq: fieldValue } }).exec()
FindOne(docs, fieldValue) ==
    IF \E d \in docs : d.slug = toString(fieldValue)
    THEN CHOOSE d \in docs : d.slug = toString(fieldValue)
    ELSE Null

\* !id || !id.toString()
MissingNever(v) == FALSE
Missing(v) == ~Truthy(v) \/ toString(v) = ""

\* if (!result) throw Boom.notFound(...); return result;
RequiredResult(result) ==
    IF ~Truthy(result) THEN Throw(NotFound("Resource not found")) ELSE Return(result)

\* catch (err) { throw Boom.badData(...) }
SaveFailureRethrown(err) == err
SaveFailure(err) == BadData("Unable to save. Please check if data sent was valid.")

\* ---------------------------------------------------- applying a factory
ZodInputs == {Undefined} \cup {Obj(p) : p \in Pojos}
IdArgs == {Undefined, Null, Str(""), Str("a"), Str("c"), Str("x"), Num(0), Num(7), EmptyArray}
DbError == PlainError("connection lost")
ValidationError == PlainError("ValidationError")
\* What context[propertyKeyOfDocument] may hold; only a document has save().
SaveTargets == {Undefined, Null, Str("x")} \cup Documents

HelperCalls ==
    [fn : {"SanitizeParamsWithZod", "SanitizeQueryParamsWithZod",
           "SanitizeResponseWithZod"},
     schema : Schemas, input : ZodInputs]
    \cup [fn : {"SanitizeBodyWithZod"}, schema : Schemas, partial : BOOLEAN,
          input : ZodInputs]
    \cup [fn : {"PojoToValidated"}, schema : Schemas, input : ZodInputs,
          present : BOOLEAN]
    \cup [fn : {"findByIdRequired", "findOneByRequired"}, arg : IdArgs,
          docs : SUBSET Documents]
    \cup [fn : {"SaveOnDocumentFrom"}, target : SaveTargets]

HelperIdle ==
    /\ hcall = [fn |-> "none"]
    /\ hpc = "settled"
    /\ hresult = None
    /\ hqueries = << >>
    /\ hanswer = None
    /\ hsaves = 0

\* The rest state of the handler variables while a factory is applied.
HandlerIdle ==
    /\ req = << >>
    /\ pc = << >>
    /\ stage = << >>
    /\ ctx = << >>
    /\ ran = << >>
    /\ settled = << >>
    /\ written = << >>
    /\ calls = << >>

HelperInit ==
    /\ hcall \in HelperCalls
    /\ hpc = "ready"
    /\ hresult = None
    /\ hqueries = << >>
    /\ hanswer = None
    /\ hsaves = 0
    /\ HandlerIdle

\* A synchronous stage: runs to its return or throw in one step.
Settle(result) ==
    /\ hpc' = "settled"
    /\ hresult' = result
    /\ UNCHANGED <<hcall, hqueries, hanswer, hsaves>>

ApplySanitizeParams ==
    /\ hpc = "ready" /\ hcall.fn = "SanitizeParamsWithZod"
    /\ Settle(SanitizeParamsWithZod(hcall.schema, hcall.input))
    /\ UNCHANGED rvars

ApplySanitizeQueryParams ==
    /\ hpc = "ready" /\ hcall.fn = "SanitizeQueryParamsWithZod"
    /\ Settle(SanitizeQueryParamsWithZod(hcall.schema, hcall.input))
    /\ UNCHANGED rvars

ApplySanitizeBody ==
    /\ hpc = "ready" /\ hcall.fn = "SanitizeBodyWithZod"
    /\ Settle(SanitizeBodyWithZod(hcall.schema, hcall.partial, hcall.input))
    /\ UNCHANGED rvars

ApplySanitizeResponse ==
    /\ hpc = "ready" /\ hcall.fn = "SanitizeResponseWithZod"
    /\ Settle(SanitizeResponseWithZod(hcall.schema, hcall.input))
    /\ UNCHANGED rvars

\* The context handed to the PojoToValidated stage.
PojoContext(c) == IF c.present THEN [k \in {"pojo"} |-> c.input] ELSE << >>

ApplyPojoToValidated ==
    /\ hpc = "ready" /\ hcall.fn = "PojoToValidated"
    /\ Settle(PojoToValidated("pojo", hcall.schema, "validated", PojoContext(hcall)))
    /\ UNCHANGED rvars

\* findByIdRequired(Model)(id), up to its await of Model.findById(id).exec().
FindByIdRequiredCall ==
    /\ hpc = "ready" /\ hcall.fn = "findByIdRequired"
    /\ IF Missing(hcall.arg)
       THEN /\ hpc' = "settled"
            /\ hresult' = Throw(BadRequest("Missing dependent resource ID"))
            /\ UNCHANGED hqueries
       ELSE /\ hpc' = "awaiting"
            /\ hqueries' = Append(hqueries, [op |-> "findById", arg |-> hcall.arg])
            /\ UNCHANGED hresult
    /\ UNCHANGED <<hcall, hanswer, hsaves, rvars>>

\* findOneByRequired(Model, fieldName)(fieldValue), up to its await.
FindOneByRequiredCall ==
    /\ hpc = "ready" /\ hcall.fn = "findOneByRequired"
    /\ IF Missing(hcall.arg)
       THEN /\ hpc' = "settled"
            /\ hresult' = Throw(BadRequest("Missing dependent resource value"))
            /\ UNCHANGED hqueries
       ELSE /\ hpc' = "awaiting"
            /\ hqueries' = Append(hqueries, [op |-> "findOne", arg |-> hcall.arg])
            /\ UNCHANGED hresult
    /\ UNCHANGED <<hcall, hanswer, hsaves, rvars>>

\* The awaited query settles: with the document found, with null, or rejected.
LookupSettle ==
    /\ hpc = "awaiting" /\ hcall.fn \in {"findByIdRequired", "findOneByRequired"}
    /\ \E answer \in {Return(IF hcall.fn = "findByIdRequired"
                             THEN FindById(hcall.docs, hcall.arg)
                             ELSE FindOne(hcall.docs, hcall.arg)),
                      Throw(DbError)} :
          /\ hanswer' = answer
          /\ hresult' = IF answer.kind = "throw"
                        THEN answer
                        ELSE RequiredResult(answer.value)
    /\ hpc' = "settled"
    /\ UNCHANGED <<hcall, hqueries, hsaves, rvars>>

\* SaveOnDocumentFrom(key)(context), up to its await of context[key].save().
SaveOnDocumentFromCall ==
    /\ hpc = "ready" /\ hcall.fn = "SaveOnDocumentFrom"
    /\ IF Truthy(hcall.target)
       THEN IF hcall.target.kind = "document"
            THEN /\ hpc' = "awaiting"
                 /\ hsaves' = hsaves + 1
                 /\ UNCHANGED <<hresult, hanswer>>
            ELSE \* context[key].save is not a function: a TypeError inside the try
                 /\ hpc' = "settled"
                 /\ hanswer' = Throw(PlainError("TypeError"))
                 /\ hresult' = Throw(SaveFailure(PlainError("TypeError")))
                 /\ UNCHANGED hsaves
       ELSE /\ hpc' = "settled"
            /\ hresult' = Throw(BadRequest("Resource not found"))
            /\ UNCHANGED <<hanswer, hsaves>>
    /\ UNCHANGED <<hcall, hqueries, rvars>>

\* save() settles: resolved with the saved document, or rejected.
SaveSettle ==
    /\ hpc = "awaiting" /\ hcall.fn = "SaveOnDocumentFrom"
    /\ \E answer \in {Return(hcall.target), Throw(ValidationError), Throw(DbError)} :
          /\ hanswer' = answer
          /\ hresult' = IF answer.kind = "throw"
                        THEN Throw(SaveFailure(answer.exception))
                        ELSE answer
    /\ hpc' = "settled"
    /\ UNCHANGED <<hcall, hqueries, hsaves, rvars>>

HelperNext ==
    \/ ApplySanitizeParams
    \/ ApplySanitizeQueryParams
    \/ ApplySanitizeBody
    \/ ApplySanitizeResponse
    \/ ApplyPojoToValidated
    \/ FindByIdRequiredCall
    \/ FindOneByRequiredCall
    \/ LookupSettle
    \/ SaveOnDocumentFromCall
    \/ SaveSettle

\* ------------------------------------------------------------ the pipeline
Requests == 1 .. NumRequests

\* The stages of a hipthrustable, in the order executeHipthrustable runs them.
StageOrder ==
    <<"sanitizeParams", "sanitizeQueryParams", "sanitizeBody", "preAuthorize",
      "attachData", "finalAuthorize", "doWork", "respond", "sanitizeResponse">>

UserStages == {"preAuthorize", "attachData", "finalAuthorize", "doWork", "respond"}

\* The handlingStrategy given to hipExpressHandlerFactory: zod sanitizers
\* around user-written stages.
Required(t) == [type |-> t, optional |-> FALSE]
Optional(t) == [type |-> t, optional |-> TRUE]
ParamsSchema ==
    [shape |-> [k \in {"id"} |-> Required("string")], unknownKeys |-> "strip"]
QuerySchema ==
    [shape |-> [k \in {"name"} |-> Optional("string")], unknownKeys |-> "strip"]
BodySchema ==
    [shape |-> [k \in {"_id", "name"} |->
                   IF k = "_id" THEN Optional("string") ELSE Required("string")],
     unknownKeys |-> "strip"]
ResponseSchema ==
    [shape |-> [k \in {"_id", "name"} |-> Required("string")],
     unknownKeys |-> "strip"]

\* What a request may carry.
ReqParams == {Obj([k \in {"id"} |-> "s1"]), Obj(<< >>)}
ReqQuery == {Obj(<< >>), Obj([k \in {"name"} |-> "n1"])}
ReqBody == {Obj([k \in {"_id", "name"} |-> "s1"]), Undefined}
Reqs == [params : ReqParams, query : ReqQuery, body : ReqBody]

\* What the user-written stages may do: return their output, or throw.
UserExceptions ==
    {HipRedirect(302, "/login"), HipRedirect(301, "/moved"),
     Forbidden("Not allowed"), PlainError("TypeError")}
Responses ==
    {Obj([k \in {"_id", "name"} |-> "s1"]), Obj([k \in {"name"} |-> "s1"]), Undefined}
Statuses == {200, 201}
UserReturns(name) ==
    IF name = "respond"
    THEN {Return([response |-> resp, status |-> st]) : resp \in Responses, st \in Statuses}
    ELSE {Return([k \in {name} |-> Str("ok")])}

\* { ...a, ...b }
Merge(a, b) ==
    [k \in DOMAIN a \cup DOMAIN b |-> IF k \in DOMAIN b THEN b[k] ELSE a[k]]

\* The result of the stage named name in the log of stages run.
ResultOf(log, name) ==
    IF \E i \in 1 .. Len(log) : log[i].stage = name
    THEN log[CHOOSE i \in 1 .. Len(log) : log[i].stage = name].result
    ELSE None

\* What the stage named name may settle with, given the request and the
\* stages run before it.
StageResults(name, rq, log) ==
    CASE name = "sanitizeParams" -> {SanitizeParamsWithZod(ParamsSchema, rq.params)}
      [] name = "sanitizeQueryParams" ->
            {SanitizeQueryParamsWithZod(QuerySchema, rq.query)}
      [] name = "sanitizeBody" -> {SanitizeBodyWithZod(BodySchema, FALSE, rq.body)}
      [] name = "sanitizeResponse" ->
            {SanitizeResponseWithZod(ResponseSchema,
                                     ResultOf(log, "respond").value.response)}
      [] OTHER -> UserReturns(name) \cup {Throw(e) : e \in UserExceptions}

\* The context key a sanitizer's output is merged under.
ContextKey(name) ==
    CASE name = "sanitizeParams" -> "params"
      [] name = "sanitizeQueryParams" -> "queryParams"
      [] name = "sanitizeBody" -> "body"
      [] OTHER -> name

\* The context after the stage named name returned value.
ContextAfter(context, name, value) ==
    IF name \in {"sanitizeParams", "sanitizeQueryParams", "sanitizeBody"}
    THEN Merge(context, [k \in {ContextKey(name)} |-> value])
    ELSE IF name \in {"respond", "sanitizeResponse"}
         THEN context
         ELSE Merge(context, value)

\* What executeHipthrustable resolves with once sanitizeResponse returned.
PipelineValue(log, safeResponse) ==
    [response |-> safeResponse, status |-> ResultOf(log, "respond").value.status]

\* --------------------------------------------------------------- handler
\* The res and next a call of the handler works on: its own parameters.
ResForFirst(r) == 1
ResFor(r) == r

JsonCall(status, response) == [op |-> "json", status |-> status, body |-> response]
RedirectCall(e) == [op |-> "redirect", code |-> e.redirectCode, url |-> e.redirectUrl]
NextCall(e) == [op |-> "next", exception |-> e]

\* exception instanceof HipRedirectException
IsHipRedirectException(e) == e.type = "HipRedirectException"

\* The catch block: redirect on a HipRedirectException, else next(exception).
CatchCallsNeverRedirect(e) == <<NextCall(e)>>
CatchCallsWrapped(e) ==
    IF IsHipRedirectException(e)
    THEN <<RedirectCall(e)>>
    ELSE <<NextCall(PlainError("Internal Server Error"))>>
CatchCallsFallThrough(e) ==
    IF IsHipRedirectException(e)
    THEN <<RedirectCall(e), NextCall(e)>>
    ELSE <<NextCall(e)>>
CatchCalls(e) ==
    IF IsHipRedirectException(e) THEN <<RedirectCall(e)>> ELSE <<NextCall(e)>>

\* What res.status(status).json(response) may throw.
WriteErrors ==
    {PlainError("Converting circular structure to JSON"), HipRedirect(302, "/login")}

Init ==
    /\ HelperIdle
    /\ req = [r \in Requests |-> None]
    /\ pc = [r \in Requests |-> "idle"]
    /\ stage = [r \in Requests |-> 1]
    /\ ctx = [r \in Requests |-> << >>]
    /\ ran = [r \in Requests |-> << >>]
    /\ settled = [r \in Requests |-> None]
    /\ written = [r \in Requests |-> None]
    /\ calls = [r \in Requests |-> << >>]

\* The framework calls the handler: executeHipthrustable is started on
\* req.params, req.query and req.body, and the handler awaits it.
Invoke(r) ==
    /\ pc[r] = "idle"
    /\ \E rq \in Reqs : req' = [req EXCEPT ![r] = rq]
    /\ pc' = [pc EXCEPT ![r] = "running"]
    /\ UNCHANGED <<stage, ctx, ran, settled, written, calls, hvars>>

\* executeHipthrustable runs its next stage: a throw rejects the run, a
\* return merges the output and moves on, the last return resolves the run.
RunStage(r) ==
    /\ pc[r] = "running"
    /\ LET name == StageOrder[stage[r]]
       IN \E result \in StageResults(name, req[r], ran[r]) :
            /\ ran' = [ran EXCEPT ![r] = Append(@, [stage |-> name, result |-> result])]
            /\ IF result.kind = "throw"
               THEN /\ pc' = [pc EXCEPT ![r] = "rejected"]
                    /\ settled' = [settled EXCEPT ![r] = result]
                    /\ UNCHANGED <<stage, ctx>>
               ELSE /\ ctx' = [ctx EXCEPT ![r] = ContextAfter(@, name, result.value)]
                    /\ IF stage[r] = Len(StageOrder)
                       THEN /\ pc' = [pc EXCEPT ![r] = "resolved"]
                            /\ settled' = [settled EXCEPT ![r] =
                                              Return(PipelineValue(ran'[r], result.value))]
                            /\ UNCHANGED stage
                       ELSE /\ stage' = [stage EXCEPT ![r] = @ + 1]
                            /\ UNCHANGED <<pc, settled>>
    /\ UNCHANGED <<req, written, calls, hvars>>

\* A handler that does not await the run before it writes the response.
HandlerRespondUnawaited(r) ==
    /\ pc[r] = "running"
    /\ calls' = [calls EXCEPT ![ResFor(r)] = Append(@, JsonCall(Undefined, Undefined))]
    /\ written' = [written EXCEPT ![r] = Return(Undefined)]
    /\ pc' = [pc EXCEPT ![r] = "done"]
    /\ UNCHANGED <<req, stage, ctx, ran, settled, hvars>>
\* The awaited run resolved: res.status(status).json(response); if that
\* throws, the catch block runs on what it threw.
HandlerRespond(r) ==
    /\ pc[r] = "resolved"
    /\ LET v == settled[r].value
       IN \E w \in {Return(Undefined)} \cup {Throw(e) : e \in WriteErrors} :
            /\ written' = [written EXCEPT ![r] = w]
            /\ calls' = [calls EXCEPT ![ResFor(r)] =
                   @ \o <<JsonCall(v.status, v.response)>>
                     \o (IF w.kind = "throw" THEN CatchCalls(w.exception) ELSE << >>)]
    /\ pc' = [pc EXCEPT ![r] = "done"]
    /\ UNCHANGED <<req, stage, ctx, ran, settled, hvars>>

\* The awaited run rejected: the catch block runs on the exception.
HandlerCatch(r) ==
    /\ pc[r] = "rejected"
    /\ calls' = [calls EXCEPT ![ResFor(r)] = @ \o CatchCalls(settled[r].exception)]
    /\ pc' = [pc EXCEPT ![r] = "done"]
    /\ UNCHANGED <<req, stage, ctx, ran, settled, written, hvars>>

Next ==
    \/ \E r \in Requests : Invoke(r)
    \/ \E r \in Requests : RunStage(r)
    \/ \E r \in Requests : HandlerRespond(r)
    \/ \E r \in Requests : HandlerCatch(r)

Spec == Init /\ [][Next]_vars

HelperSpec == HelperInit /\ [][HelperNext]_vars

\* ================================================================ claims
HasCall(r, op) == \E i \in 1 .. Len(calls[r]) : calls[r][i].op = op

\* What the catch block is to do with exception e.
Handled(e) ==
    IF e.type = "HipRedirectException"
    THEN <<[op |-> "redirect", code |-> e.redirectCode, url |-> e.redirectUrl]>>
    ELSE <<[op |-> "next", exception |-> e]>>

\* C1: when the run of a request throws a HipRedirectException the handler
\* calls res.redirect(redirectCode, redirectUrl), and calls neither next nor
\* res.status(...).json(...) for that request.
C1_RedirectShortCircuits ==
    \A r \in Requests :
        (settled[r].kind = "throw"
            /\ settled[r].exception.type = "HipRedirectException") =>
            LET e == settled[r].exception
            IN /\ ~HasCall(r, "next")
               /\ ~HasCall(r, "json")
               /\ pc[r] = "done" =>
                     calls[r] = <<[op |-> "redirect", code |-> e.redirectCode,
                                   url |-> e.redirectUrl]>>

C1_Witness ==
    \E r \in Requests :
        /\ pc[r] = "done"
        /\ settled[r] = Throw(HipRedirect(301, "/moved"))
        /\ ran[r][Len(ran[r])].stage = "finalAuthorize"
        /\ calls[r] = <<[op |-> "redirect", code |-> 301, url |-> "/moved"]>>

\* C2: an exception that is not a HipRedirectException, thrown by the run or
\* by the response write, is forwarded by next(exception) with that very
\* exception, and res.redirect is not called for the request.
C2_OtherExceptionsForwarded ==
    \A r \in Requests :
        /\ (settled[r].kind = "throw"
              /\ settled[r].exception.type # "HipRedirectException") =>
              /\ ~HasCall(r, "redirect")
              /\ pc[r] = "done" =>
                    calls[r] = <<[op |-> "next", exception |-> settled[r].exception]>>
        /\ (written[r].kind = "throw"
              /\ written[r].exception.type # "HipRedirectException") =>
              /\ ~HasCall(r, "redirect")
              /\ calls[r][Len(calls[r])] =
                    [op |-> "next", exception |-> written[r].exception]

C2_Witness ==
    \E r \in Requests :
        /\ pc[r] = "done"
        /\ settled[r] = Throw(Forbidden("Not allowed"))
        /\ calls[r] = <<[op |-> "next", exception |-> Forbidden("Not allowed")]>>

\* C3: the stages of a request run in StageOrder, one after the other; after
\* a stage threw no later stage runs; res.status(status).json(response) is
\* called only once sanitizeResponse has returned.
C3_StagesInOrder ==
    \A r \in Requests :
        /\ Len(ran[r]) <= Len(StageOrder)
        /\ \A i \in 1 .. Len(ran[r]) :
              /\ ran[r][i].stage = StageOrder[i]
              /\ i < Len(ran[r]) => ran[r][i].result.kind = "return"
        /\ HasCall(r, "json") =>
              /\ Len(ran[r]) = Len(StageOrder)
              /\ ran[r][Len(ran[r])].stage = "sanitizeResponse"
              /\ ran[r][Len(ran[r])].result.kind = "return"
              /\ calls[r][1] = [op |-> "json",
                                status |-> ResultOf(ran[r], "respond").value.status,
                                body |-> ran[r][Len(ran[r])].result.value]

C3_Witness ==
    \E r \in Requests :
        /\ pc[r] = "done"
        /\ Len(ran[r]) = Len(StageOrder)
        /\ HasCall(r, "json")
        /\ calls[r][1].status = 201

\* C5: when the response respond produced fails the response schema,
\* sanitizeResponse throws a 500 Boom error (no 4xx), no JSON body is sent
\* for the request, and the error goes to next.
C5_BadResponseIs500 ==
    \A r \in Requests :
        (/\ Len(ran[r]) = Len(StageOrder)
         /\ ~SafeParse(ResponseSchema,
                       ResultOf(ran[r], "respond").value.response).success) =>
            LET result == ran[r][Len(ran[r])].result
            IN /\ result.kind = "throw"
               /\ result.exception.type = "Boom"
               /\ result.exception.statusCode = 500
               /\ settled[r] = result
               /\ ~HasCall(r, "json")
               /\ pc[r] = "done" =>
                     calls[r] = <<[op |-> "next", exception |-> result.exception]>>

C5_Witness ==
    \E r \in Requests :
        /\ pc[r] = "done"
        /\ Len(ran[r]) = Len(StageOrder)
        /\ ResultOf(ran[r], "respond").value.response = Obj([k \in {"name"} |-> "s1"])
        /\ calls[r] = <<[op |-> "next",
                         exception |-> Internal("Response validation failed")]>>

\* The run of the stages from the i-th on for a request alone: the sanitizers
\* computed from its req, the user stages settling as log records them.
RECURSIVE SoloSettle(_, _, _, _)
SoloSettle(rq, log, acc, i) ==
    IF i > Len(StageOrder)
    THEN Return(PipelineValue(acc, acc[Len(acc)].result.value))
    ELSE LET name == StageOrder[i]
             result == IF name \in UserStages
                       THEN ResultOf(log, name)
                       ELSE CHOOSE x \in StageResults(name, rq, acc) : TRUE
         IN IF result.kind = "return"
            THEN SoloSettle(rq, log, Append(acc, [stage |-> name, result |-> result]),
                            i + 1)
            ELSE result

\* The outcome of a request run alone.
SoloCalls(rq, log, w) ==
    LET s == SoloSettle(rq, log, << >>, 1)
    IN CASE s.kind = "throw" -> Handled(s.exception)
         [] s.kind = "return" ->
               <<[op |-> "json", status |-> s.value.status, body |-> s.value.response]>>
               \o (IF w.kind = "throw" THEN Handled(w.exception) ELSE << >>)
         [] OTHER -> << >>

\* C8: with several requests in flight on one handler, their stages
\* interleaving, the outcome of each request is the outcome it has when run
\* alone on its own req and stage results, and nothing is called on the res
\* or next of a request that is not handled yet.
C8_RequestsIndependent ==
    \A r \in Requests :
        /\ pc[r] = "done" => calls[r] = SoloCalls(req[r], ran[r], written[r])
        /\ pc[r] # "done" => calls[r] = << >>

\* Two requests in flight at once: one awaits its next stage while the run of
\* the other, on another req, has rejected and its catch block has yet to run.
C8_Witness ==
    \E r1, r2 \in Requests :
        /\ r1 # r2
        /\ pc[r1] = "running" /\ stage[r1] = 5
        /\ pc[r2] = "rejected"
        /\ req[r1] # req[r2]
        /\ settled[r2] = Throw(BadRequest("Body not valid"))

\* C9 as stated: every handled request has exactly one terminal call, and
\* next is never called after res.status(...).json(...) was invoked.
C9_ExactlyOneOutcome ==
    \A r \in Requests :
        /\ pc[r] = "done" => Len(calls[r]) = 1
        /\ \A i, j \in 1 .. Len(calls[r]) :
              i < j => ~(calls[r][i].op = "json" /\ calls[r][j].op = "next")

\* C9 as amended: a handled request has exactly one terminal call, unless
\* the write res.status(...).json(...) threw: then the json call is followed
\* by the one call the catch block makes on what the write threw.  json is
\* invoked at most once, and redirect and next at most once between them.
C9_OneOutcomeUnlessWriteThrows ==
    \A r \in Requests :
        /\ pc[r] # "done" => calls[r] = << >>
        /\ pc[r] = "done" =>
              IF written[r].kind = "throw"
              THEN /\ Len(calls[r]) = 2
                   /\ calls[r][1].op = "json"
                   /\ <<calls[r][2]>> = Handled(written[r].exception)
              ELSE /\ Len(calls[r]) = 1
                   /\ calls[r][1].op \in {"json", "redirect", "next"}
                   /\ calls[r][1].op = "json" <=> settled[r].kind = "return"

C9_Witness ==
    \E r \in Requests :
        /\ pc[r] = "done"
        /\ written[r].kind = "throw"
        /\ calls[r][1].op = "json"
        /\ calls[r][2].op = "next"

\* The schema a sanitizer application parses with, and the value it parses.
AppliedSchema ==
    IF hcall.fn = "SanitizeBodyWithZod"
    THEN EffectiveSchema(hcall.schema, hcall.partial)
    ELSE hcall.schema
AppliedInput ==
    IF hcall.fn = "PojoToValidated" /\ ~hcall.present THEN Undefined ELSE hcall.input

InputSanitizers ==
    {"SanitizeParamsWithZod", "SanitizeQueryParamsWithZod", "SanitizeBodyWithZod"}

\* C4: when the value given to an input sanitizer or to PojoToValidated fails
\* the stage's schema the stage throws a 400 Boom error; it returns a value
\* only when the parse succeeded.
C4_InvalidInputIs400 ==
    (hpc = "settled" /\ hcall.fn \in InputSanitizers \cup {"PojoToValidated"}) =>
        LET parse == SafeParse(AppliedSchema, AppliedInput)
        IN /\ ~parse.success =>
                 /\ hresult.kind = "throw"
                 /\ hresult.exception.type = "Boom"
                 /\ hresult.exception.statusCode = 400
           /\ hresult.kind = "return" => parse.success

C4_Witness ==
    /\ hpc = "settled"
    /\ hcall.fn = "SanitizeBodyWithZod"
    /\ hcall.input.kind = "object"
    /\ hcall.partial
    /\ hresult = Throw(BadRequest("Body not valid"))

\* C10: the value an input sanitizer returns has no top-level _id key and
\* keeps every other key of the parsed data with its value; the value
\* SanitizeResponseWithZod returns is the parsed data, _id included.
C10_StripsOnlyId ==
    (hpc = "settled" /\ hresult.kind = "return") =>
        /\ hcall.fn \in InputSanitizers =>
              LET data == SafeParse(AppliedSchema, AppliedInput).data.fields
                  out == hresult.value.fields
              IN /\ "_id" \notin DOMAIN out
                 /\ DOMAIN out = DOMAIN data \ {"_id"}
                 /\ \A k \in DOMAIN out : out[k] = data[k]
        /\ hcall.fn = "SanitizeResponseWithZod" =>
              hresult.value = SafeParse(hcall.schema, hcall.input).data

C10_Witness ==
    /\ hpc = "settled"
    /\ hcall.fn = "SanitizeQueryParamsWithZod"
    /\ hresult.kind = "return"
    /\ "_id" \in DOMAIN SafeParse(hcall.schema, hcall.input).data.fields
    /\ DOMAIN hresult.value.fields = {"id", "name"}

Lookups == {"findByIdRequired", "findOneByRequired"}

\* C6: a required lookup throws 400 for a missing or empty argument without
\* querying the Model; it throws 404 when the query resolves to no document;
\* it returns only the document the query resolved to.
C6_RequiredLookup ==
    hcall.fn \in Lookups =>
        /\ (hpc # "ready"
              /\ (hcall.arg.kind \in {"undefined", "null"} \/ hcall.arg = Str(""))) =>
              /\ hresult.kind = "throw"
              /\ hresult.exception.type = "Boom"
              /\ hresult.exception.statusCode = 400
              /\ hqueries = << >>
        /\ (hanswer.kind = "return" /\ hanswer.value = Null) =>
              /\ hresult.kind = "throw"
              /\ hresult.exception.type = "Boom"
              /\ hresult.exception.statusCode = 404
        /\ hresult.kind = "return" =>
              /\ Len(hqueries) = 1
              /\ hanswer.kind = "return"
              /\ hanswer.value \in hcall.docs
              /\ hresult.value = hanswer.value

C6_Witness ==
    /\ hcall.fn = "findOneByRequired"
    /\ hpc = "settled"
    /\ hcall.arg = Str("")
    /\ hcall.docs # {}
    /\ hresult = Throw(BadRequest("Missing dependent resource value"))

\* C7: SaveOnDocumentFrom throws 422 when context[key] is present and its
\* save() fails, whatever the failure; throws 400 without calling save() when
\* context[key] is absent; returns only what a successful save() resolved to.
C7_SaveOnDocument ==
    hcall.fn = "SaveOnDocumentFrom" =>
        /\ (Truthy(hcall.target) /\ hanswer.kind = "throw") =>
              /\ hresult.kind = "throw"
              /\ hresult.exception.type = "Boom"
              /\ hresult.exception.statusCode = 422
        /\ (hpc # "ready" /\ hcall.target = Undefined) =>
              /\ hresult.kind = "throw"
              /\ hresult.exception.type = "Boom"
              /\ hresult.exception.statusCode = 400
              /\ hsaves = 0
        /\ hresult.kind = "return" =>
              /\ hsaves = 1
              /\ hanswer.kind = "return"
              /\ hresult.value = hanswer.value

C7_Witness ==
    /\ hcall.fn = "SaveOnDocumentFrom"
    /\ hpc = "settled"
    /\ hanswer = Throw(DbError)
    /\ hsaves = 1
    /\ hresult.exception.statusCode = 422

====
